---- MODULE Spec2Model ----
(***************************************************************************)
(* The review nudger of src/__init__.py as a state machine.                *)
(*                                                                         *)
(* Time is the wall clock in whole seconds since the nudger was built.     *)
(* A number of minutes held in the configuration (interval_minutes,        *)
(* snooze_minutes) is represented in sixtieths of a minute, so that the    *)
(* fractional values the repository uses (0.1, 0.25, 0.5) are integers:    *)
(* 0.25 minutes is 15, 1 minute is 60, 5 minutes is 300.  Python's None is *)
(* the empty sequence <<>> and a present optional value v is <<v>>.        *)
(*                                                                         *)
(* The stored document is JSON, and a user's edit of it can put null or a  *)
(* string where a number belongs.  Such a value is held as a number of     *)
(* its own, above every number the configuration uses (JsonNull, JsonText, *)
(* JsonDigits), and Python's int() is modelled on these by int_raises.     *)
(***************************************************************************)
EXTENDS Integers, Sequences, FiniteSets, TLC

VARIABLES
    now,                  \* time.time(): seconds since construction
    clock0,               \* second of the calendar at construction (datetime.now())
    clock_step,           \* seconds between two instants of the clock that are told apart
    since_fired,          \* history: seconds since the prompt fired last, 60 standing
                          \* for 60 and more and for "never"
    store,                \* mw.addonManager's stored config of the add-on
    defaults,             \* the module's DEFAULT_CFG table as it stands
    cur_deck,             \* mw.col.decks: id of the host's current deck
    deck_tooltip,         \* history: the go() that ran last showed "Configured deck
                          \* not found; using current deck"
    cfg,                  \* self.cfg
    _last_activity_ts,    \* self._last_activity_ts
    _next_due_ts,         \* self._next_due_ts
    _disable_until_date,  \* self._disable_until_date: <<>> or <<day>>
    mw_state,             \* mw.state
    prompts,              \* QMessageBox dialogs of _prompt_review inside msg.exec()
    review_pending,       \* _start_review: "none", "go" (go queued), "study" (_try_start queued)
    _forced_review_nudger,\* hasattr(mw, "_forced_review_nudger"): the nudger was built
    instances,            \* ReviewNudger objects built, each with its timer and hooks
    raised,               \* history: the handler that ran last ended in an exception
    due_writer,           \* history: the assignment that wrote _next_due_ts last:
                          \* "interval", "snooze" or "cancel"
    last_op               \* history: the handler that ran last; for the tick its outcome,
                          \* for "reset today" whether the date was disabled

vars == <<now, clock0, clock_step, since_fired, store, defaults, cur_deck, deck_tooltip, cfg, _last_activity_ts, _next_due_ts,
          _disable_until_date, mw_state, prompts, review_pending,
          _forced_review_nudger, instances, raised, due_writer, last_op>>

sched == <<_last_activity_ts, _next_due_ts, _disable_until_date>>

-----------------------------------------------------------------------------
(* Bounds of the exploration *)

\* the clock is explored up to this many seconds after construction
MaxTime == 180

\* deepest nesting of open prompt dialogs explored
MaxPrompts == 2

\* largest quiet-hours start and end explored by SpecQuiet (the smallest is -1)
MaxQuietHour == 26

\* largest number of minutes explored by SpecMinutes, in sixtieths of a
\* minute (the smallest is its negative)
MaxSixtieths == 125

-----------------------------------------------------------------------------
(* Values *)

None == <<>>

Max(a, b) == IF a >= b THEN a ELSE b

\* m whole minutes, in the representation of configured minutes
Minutes(m) == m * 60

\* JSON values that are not numbers: null, a string that is not a numeral
\* ("abc"), and the string of the decimal numeral of h ("22")
JsonNull == 1000000
JsonText == 1000001
JsonDigits(h) == 2000000 + h

\* Python's int(x) raises: int(None) is a TypeError, int("abc") a ValueError
int_raises(x) == x \in {JsonNull, JsonText}

\* Python's int() of a configured number of minutes: truncation toward zero
int(x) == IF x >= 0 THEN x \div 60 ELSE -((-x) \div 60)

\* Python's int() of a quiet-hours entry: an integer is itself, the string
\* of a numeral is the number it spells
int_entry(x) == IF x >= JsonDigits(-1000) THEN x - JsonDigits(0) ELSE x

\* host states the user moves the main window to
NavStates == {"deckBrowser", "review"}

\* the clock at construction: two minutes before midnight, so that the hour
\* and the date change while the model runs
StartClocks == {24 * 3600 - 120}

-----------------------------------------------------------------------------
(* Configuration *)

DEFAULT_CFG ==
    [interval_minutes |-> 6,
     snooze_minutes   |-> Minutes(5),
     quiet_hours      |-> [start |-> 25, end |-> 26],
     enabled          |-> TRUE,
     target_deck_id   |-> None]

\* test_config.py's templates (none stores target_deck_id)
CONFIGS ==
    [fast     |-> [interval_minutes |-> 15, snooze_minutes |-> 6,
                   quiet_hours |-> [start |-> 25, end |-> 26], enabled |-> TRUE],
     normal   |-> [interval_minutes |-> Minutes(30), snooze_minutes |-> Minutes(5),
                   quiet_hours |-> [start |-> 22, end |-> 7], enabled |-> TRUE],
     quiet    |-> [interval_minutes |-> 30, snooze_minutes |-> 6,
                   quiet_hours |-> [start |-> 0, end |-> 23], enabled |-> TRUE],
     disabled |-> [interval_minutes |-> 15, snooze_minutes |-> 6,
                   quiet_hours |-> [start |-> 22, end |-> 7], enabled |-> FALSE]]

\* what the config store may hold when the nudger is built: nothing, a test
\* template, or a document a user saved
StoredConfigs ==
    { <<>>,
      CONFIGS.fast,
      CONFIGS.disabled,
      [interval_minutes |-> 90, snooze_minutes |-> Minutes(5),
       quiet_hours |-> [start |-> 0, end |-> 23], enabled |-> TRUE,
       target_deck_id |-> None] }

\* Variant of get_cfg: the defaults are laid over the stored values
get_cfg_defaults_win(stored) ==
    [k \in DOMAIN defaults \cup DOMAIN stored |->
        IF k \in DOMAIN defaults THEN defaults[k] ELSE stored[k]]

\* merged = DEFAULT_CFG.copy(); merged.update(stored): the table is read,
\* the copy is written
get_cfg(stored) ==
    [k \in DOMAIN defaults \cup DOMAIN stored |->
        IF k \in DOMAIN stored THEN stored[k] ELSE defaults[k]]

_interval_s(c) == Max(60, int(c.interval_minutes) * 60)

\* _interval_s and _snooze_s call int() outside any try
_interval_s_raises(c) == int_raises(c.interval_minutes)
_snooze_s_raises(c) == int_raises(c.snooze_minutes)

\* Variant of _snooze_s: the fraction of a minute is kept
_snooze_s_exact(c) == Max(60, c.snooze_minutes)

\* Variant of _snooze_s: the minutes are not turned into seconds
_snooze_s_minutes(c) == Max(60, int(c.snooze_minutes))

_snooze_s(c) == Max(60, int(c.snooze_minutes) * 60)

-----------------------------------------------------------------------------
(* The clock *)

\* datetime.now().hour at time t
Hour(t) == ((clock0 + t) \div 3600) % 24

\* datetime.now().strftime("%Y-%m-%d") at time t, as the number of the day
_today_str(t) == (clock0 + t) \div (24 * 3600)

\* Variant of _is_quiet_now: the overnight window joined with "and"
_is_quiet_now_and(c, t) ==
    LET start == c.quiet_hours.start
        end   == c.quiet_hours.end
        now_h == Hour(t)
    IN  IF ~(0 <= start /\ start <= 23 /\ 0 <= end /\ end <= 23) THEN FALSE
        ELSE IF start = end THEN FALSE
        ELSE IF start < end THEN start <= now_h /\ now_h < end
        ELSE now_h >= start /\ now_h < end

\* Variant of _is_quiet_now: the same-day window closed at its end hour
_is_quiet_now_inclusive(c, t) ==
    LET start == c.quiet_hours.start
        end   == c.quiet_hours.end
        now_h == Hour(t)
    IN  IF ~(0 <= start /\ start <= 23 /\ 0 <= end /\ end <= 23) THEN FALSE
        ELSE IF start = end THEN FALSE
        ELSE IF start < end THEN start <= now_h /\ now_h <= end
        ELSE now_h >= start \/ now_h < end

\* Variant of _is_quiet_now: the except branch answers "quiet"
_is_quiet_now_except_quiet(c, t) ==
    LET q == c.quiet_hours
    IN  IF ~({"start", "end"} \subseteq DOMAIN q) THEN TRUE
        ELSE IF int_raises(q.start) \/ int_raises(q.end) THEN TRUE
        ELSE LET start == int_entry(q.start)
                 end   == int_entry(q.end)
                 now_h == Hour(t)
             IN  IF ~(0 <= start /\ start <= 23 /\ 0 <= end /\ end <= 23) THEN FALSE
                 ELSE IF start = end THEN FALSE
                 ELSE IF start < end THEN start <= now_h /\ now_h < end
                 ELSE now_h >= start \/ now_h < end

\* q["start"] and q["end"] raise when q is not a mapping or lacks the key,
\* and int() raises on an entry it cannot convert: the except branch
\* answers False.  Entries int() converts are used at the converted value.
_is_quiet_now(c, t) ==
    LET q == c.quiet_hours
    IN  IF ~({"start", "end"} \subseteq DOMAIN q) THEN FALSE
        ELSE IF int_raises(q.start) \/ int_raises(q.end) THEN FALSE
        ELSE LET start == int_entry(q.start)
                 end   == int_entry(q.end)
                 now_h == Hour(t)
             IN  IF ~(0 <= start /\ start <= 23 /\ 0 <= end /\ end <= 23) THEN FALSE
                 ELSE IF start = end THEN FALSE
                 ELSE IF start < end THEN start <= now_h /\ now_h < end
                 ELSE now_h >= start \/ now_h < end

-----------------------------------------------------------------------------
(* Initial state: ReviewNudger.__init__ *)

\* _init_after_profile on the first profile_did_open: ReviewNudger() is built
\* at time 0 on the stored document.  When _interval_s raises, __init__ ends
\* there: the timer is not started, hooks and menu are not installed, and
\* mw._forced_review_nudger is not set.
__init__ ==
    /\ cfg = get_cfg(store)
    /\ _last_activity_ts = 0
    /\ _disable_until_date = None
    /\ IF _interval_s_raises(cfg)
       THEN /\ _next_due_ts = 0
            /\ raised = TRUE
            /\ _forced_review_nudger = FALSE
            /\ instances = 0
       ELSE /\ _next_due_ts = 0 + _interval_s(cfg)
            /\ raised = FALSE
            /\ _forced_review_nudger = TRUE
            /\ instances = 1
    /\ due_writer = "interval"
    /\ mw_state = "deckBrowser"
    /\ prompts = 0
    /\ review_pending = "none"
    /\ last_op = "init"

Init ==
    /\ now = 0
    /\ clock0 \in StartClocks
    /\ store \in StoredConfigs
    /\ defaults = DEFAULT_CFG
    /\ cur_deck = 1
    /\ clock_step = 15
    /\ since_fired = 60
    /\ deck_tooltip = FALSE
    /\ __init__

-----------------------------------------------------------------------------
(* Hooks *)
(* msg.exec() is modal: while a prompt is open the user reaches neither the *)
(* main window nor its menu, so the user's events wait for prompts = 0; the *)
(* timer and the calls queued on the main loop keep running.  With no       *)
(* profile loaded (mw_state = "profileManager") the main window and its     *)
(* menu are not shown.                                                      *)

\* Variant of Activity: the due time is computed from the old activity time
Activity_stale ==
    /\ _next_due_ts' = _last_activity_ts + _interval_s(cfg)
    /\ _last_activity_ts' = now
    /\ due_writer' = "interval"

\* Variant of Activity: the interval is added to the due time already set
Activity_extends ==
    /\ _last_activity_ts' = now
    /\ _next_due_ts' = Max(_next_due_ts, now) + _interval_s(cfg)
    /\ due_writer' = "interval"

\* the two assignments every activity hook makes (a nudger that was built
\* has a numeric interval_minutes: see IntervalIsNumber)
Activity ==
    /\ _last_activity_ts' = now
    /\ _next_due_ts' = now + _interval_s(cfg)
    /\ due_writer' = "interval"

\* the hook of the nudger on profile_did_open
_on_profile_open ==
    /\ Activity
    /\ last_op' = "profile_open"
    /\ raised' = FALSE
    /\ UNCHANGED <<cfg, _disable_until_date, _forced_review_nudger, instances>>

\* Variant of _init_after_profile: a nudger is built whether one exists or not
_init_after_profile_always ==
    /\ cfg' = get_cfg(store)
    /\ ~_interval_s_raises(cfg')
    /\ _last_activity_ts' = now
    /\ _disable_until_date' = None
    /\ _next_due_ts' = now + _interval_s(cfg')
    /\ due_writer' = "interval"
    /\ raised' = FALSE
    /\ _forced_review_nudger' = TRUE
    /\ instances' = instances + 1
    /\ last_op' = "init_after_profile"

\* _init_after_profile on a later profile_did_open: with the attribute set
\* it builds nothing and the hook of the nudger runs; without it,
\* ReviewNudger() is tried again, and raises again when _interval_s does
_init_after_profile ==
    IF _forced_review_nudger THEN _on_profile_open
    ELSE /\ cfg' = get_cfg(store)
         /\ last_op' = "init_after_profile"
         /\ IF _interval_s_raises(cfg')
            THEN /\ raised' = TRUE
                 /\ UNCHANGED <<sched, due_writer, _forced_review_nudger,
                                instances>>
            ELSE /\ _last_activity_ts' = now
                 /\ _disable_until_date' = None
                 /\ _next_due_ts' = now + _interval_s(cfg')
                 /\ due_writer' = "interval"
                 /\ raised' = FALSE
                 /\ _forced_review_nudger' = TRUE
                 /\ instances' = instances + 1

\* the user closes the profile (switches profile): the host unloads the
\* collection and shows the profile manager; the add-on registers nothing
\* on that event
ProfileClose ==
    /\ prompts = 0
    /\ review_pending = "none"
    /\ mw_state # "profileManager"
    /\ mw_state' = "profileManager"
    /\ last_op' = "profile_close"
    /\ raised' = FALSE
    /\ UNCHANGED <<now, clock0, clock_step, since_fired, defaults, cur_deck, deck_tooltip, store, cfg, sched, prompts, review_pending,
                   _forced_review_nudger, instances, due_writer>>

\* the user opens a profile: the host loads the collection, moves to the
\* deck browser and runs the profile_did_open hooks
ProfileOpen ==
    /\ prompts = 0
    /\ mw_state = "profileManager"
    /\ mw_state' = "deckBrowser"
    /\ _init_after_profile
    /\ UNCHANGED <<now, clock0, clock_step, since_fired, defaults, cur_deck, deck_tooltip, store, prompts, review_pending>>

_on_answer_card ==
    /\ _forced_review_nudger
    /\ prompts = 0
    /\ mw_state = "review"
    /\ Activity
    /\ last_op' = "answer_card"
    /\ raised' = FALSE
    /\ UNCHANGED <<now, clock0, clock_step, since_fired, defaults, cur_deck, deck_tooltip, store, cfg, _disable_until_date, mw_state,
                   prompts, review_pending, _forced_review_nudger, instances>>

\* the host moves to new_state and calls the hook
_on_state_change(new_state) ==
    /\ mw_state' = new_state
    /\ IF new_state = "review"
       THEN Activity
       ELSE UNCHANGED <<_last_activity_ts, _next_due_ts, due_writer>>
    /\ raised' = FALSE
    /\ UNCHANGED <<now, clock0, clock_step, since_fired, defaults, store, cfg, _disable_until_date, prompts,
                   _forced_review_nudger, instances>>

\* the user navigates in the main window
StateChange(new_state) ==
    /\ _forced_review_nudger
    /\ prompts = 0
    /\ mw_state # "profileManager"
    /\ _on_state_change(new_state)
    /\ last_op' = "state_change"
    /\ UNCHANGED <<review_pending, cur_deck, deck_tooltip>>

-----------------------------------------------------------------------------
(* Timer *)

\* Variants of _on_tick, each with one slip
_on_tick_late(t) ==
    IF ~cfg.enabled THEN FALSE
    ELSE IF _disable_until_date = <<_today_str(t)>> THEN FALSE
    ELSE IF _is_quiet_now(cfg, t) THEN FALSE
    ELSE IF mw_state = "review" THEN FALSE
    ELSE t > _next_due_ts

_on_tick_ignores_enabled(t) ==
    IF _disable_until_date = <<_today_str(t)>> THEN FALSE
    ELSE IF _is_quiet_now(cfg, t) THEN FALSE
    ELSE IF mw_state = "review" THEN FALSE
    ELSE t >= _next_due_ts

_on_tick_ignores_disable(t) ==
    IF ~cfg.enabled THEN FALSE
    ELSE IF _is_quiet_now(cfg, t) THEN FALSE
    ELSE IF mw_state = "review" THEN FALSE
    ELSE t >= _next_due_ts

_on_tick_ignores_review(t) ==
    IF ~cfg.enabled THEN FALSE
    ELSE IF _disable_until_date = <<_today_str(t)>> THEN FALSE
    ELSE IF _is_quiet_now(cfg, t) THEN FALSE
    ELSE t >= _next_due_ts

\* _on_tick at clock t: TRUE when it reaches _prompt_review
_on_tick(t) ==
    IF ~cfg.enabled THEN FALSE
    ELSE IF _disable_until_date = <<_today_str(t)>> THEN FALSE
    ELSE IF _is_quiet_now(cfg, t) THEN FALSE
    ELSE IF mw_state = "review" THEN FALSE
    ELSE t >= _next_due_ts

\* Variant of Tick: a tick that finds the host reviewing counts as activity
Tick_review_is_activity ==
    /\ _forced_review_nudger
    /\ now + clock_step <= MaxTime
    /\ now' = now + clock_step
    /\ IF now' % 15 # 0
       THEN UNCHANGED <<prompts, raised, last_op, sched>>
       ELSE /\ raised' = FALSE
            /\ IF _on_tick(now')
               THEN /\ prompts < MaxPrompts
                    /\ prompts' = prompts + 1
                    /\ last_op' = "tick_fired"
                    /\ UNCHANGED sched
               ELSE /\ prompts' = prompts
                    /\ last_op' = "tick_silent"
                    /\ IF mw_state = "review"
                       THEN /\ _last_activity_ts' = now'
                            /\ _next_due_ts' = now' + _interval_s(cfg)
                            /\ UNCHANGED _disable_until_date
                       ELSE UNCHANGED sched
    /\ since_fired' = IF prompts' = prompts + 1 THEN 0
                      ELSE IF since_fired + clock_step >= 60 THEN 60
                      ELSE since_fired + clock_step
    /\ UNCHANGED <<clock0, clock_step, defaults, cur_deck, deck_tooltip, store, cfg,
                   mw_state, review_pending, _forced_review_nudger, instances,
                   due_writer>>

\* Variant of Tick with one slip: the timer is single-shot, only its first
\* timeout runs _on_tick
Tick_single_shot ==
    /\ _forced_review_nudger
    /\ now + clock_step <= MaxTime
    /\ now' = now + clock_step
    /\ IF now' # 15
       THEN UNCHANGED <<prompts, raised, last_op>>
       ELSE /\ raised' = FALSE
            /\ IF _on_tick(now')
               THEN /\ prompts < MaxPrompts
                    /\ prompts' = prompts + 1
                    /\ last_op' = "tick_fired"
               ELSE /\ prompts' = prompts
                    /\ last_op' = "tick_silent"
    /\ since_fired' = IF prompts' = prompts + 1 THEN 0
                      ELSE IF since_fired + clock_step >= 60 THEN 60
                      ELSE since_fired + clock_step
    /\ UNCHANGED <<clock0, clock_step, defaults, cur_deck, deck_tooltip, store, cfg,
                   sched, mw_state, review_pending, _forced_review_nudger, instances,
                   due_writer>>

\* The clock moves on by clock_step.  The timer was started with the nudger,
\* at time 0, with a period of 15 s: when a period has elapsed the timeout
\* runs _on_tick, which opens the prompt (msg.exec()) or returns.
Tick ==
    /\ _forced_review_nudger
    /\ now + clock_step <= MaxTime
    /\ now' = now + clock_step
    /\ IF now' % 15 # 0
       THEN UNCHANGED <<prompts, raised, last_op>>
       ELSE /\ raised' = FALSE
            /\ IF _on_tick(now')
               THEN /\ prompts < MaxPrompts
                    /\ prompts' = prompts + 1
                    /\ last_op' = "tick_fired"
               ELSE /\ prompts' = prompts
                    /\ last_op' = "tick_silent"
    /\ since_fired' = IF prompts' = prompts + 1 THEN 0
                      ELSE IF since_fired + clock_step >= 60 THEN 60
                      ELSE since_fired + clock_step
    /\ UNCHANGED <<clock0, clock_step, defaults, cur_deck, deck_tooltip, store, cfg,
                   sched, mw_state, review_pending, _forced_review_nudger, instances,
                   due_writer>>

-----------------------------------------------------------------------------
(* Prompt *)

Choices == {"start", "snooze", "disable", "cancel", "dismiss"}

\* _start_review: mw.taskman.run_on_main(go) queues go
_start_review == review_pending' = "go"

\* Variant of _prompt_review: "start" does not reschedule
_prompt_review_start_keeps_due(clicked) ==
    /\ prompts > 0
    /\ prompts' = prompts - 1
    /\ last_op' = clicked
    /\ IF clicked = "start"
       THEN /\ _start_review
            /\ _last_activity_ts' = now
            /\ raised' = FALSE
            /\ UNCHANGED <<_next_due_ts, due_writer, _disable_until_date>>
       ELSE IF clicked = "snooze"
       THEN /\ IF _snooze_s_raises(cfg)
               THEN /\ raised' = TRUE
                    /\ UNCHANGED <<_next_due_ts, due_writer>>
               ELSE /\ _next_due_ts' = now + _snooze_s(cfg)
                    /\ due_writer' = "snooze"
                    /\ raised' = FALSE
            /\ UNCHANGED <<_last_activity_ts, _disable_until_date, review_pending>>
       ELSE IF clicked = "disable"
       THEN /\ _disable_until_date' = <<_today_str(now)>>
            /\ raised' = FALSE
            /\ UNCHANGED <<_last_activity_ts, _next_due_ts, due_writer,
                           review_pending>>
       ELSE /\ _next_due_ts' = now + 120
            /\ due_writer' = "cancel"
            /\ raised' = FALSE
            /\ UNCHANGED <<_last_activity_ts, _disable_until_date, review_pending>>
    /\ UNCHANGED <<now, clock0, clock_step, since_fired, defaults, cur_deck, deck_tooltip, store, cfg, mw_state, _forced_review_nudger, instances>>

\* Variant of _prompt_review: cancelling counts as a snooze
_prompt_review_cancel_snoozes(clicked) ==
    /\ prompts > 0
    /\ prompts' = prompts - 1
    /\ last_op' = clicked
    /\ IF clicked = "start"
       THEN /\ _start_review
            /\ _last_activity_ts' = now
            /\ _next_due_ts' = now + _interval_s(cfg)
            /\ due_writer' = "interval"
            /\ raised' = FALSE
            /\ UNCHANGED _disable_until_date
       ELSE IF clicked = "snooze"
       THEN /\ IF _snooze_s_raises(cfg)
               THEN /\ raised' = TRUE
                    /\ UNCHANGED <<_next_due_ts, due_writer>>
               ELSE /\ _next_due_ts' = now + _snooze_s(cfg)
                    /\ due_writer' = "snooze"
                    /\ raised' = FALSE
            /\ UNCHANGED <<_last_activity_ts, _disable_until_date, review_pending>>
       ELSE IF clicked = "disable"
       THEN /\ _disable_until_date' = <<_today_str(now)>>
            /\ raised' = FALSE
            /\ UNCHANGED <<_last_activity_ts, _next_due_ts, due_writer,
                           review_pending>>
       ELSE /\ _next_due_ts' = now + _snooze_s(cfg)
            /\ due_writer' = "cancel"
            /\ raised' = FALSE
            /\ UNCHANGED <<_last_activity_ts, _disable_until_date, review_pending>>
    /\ UNCHANGED <<now, clock0, clock_step, since_fired, defaults, cur_deck, deck_tooltip, store, cfg, mw_state, _forced_review_nudger, instances>>

\* the user answers the innermost open prompt at the current time; the rest
\* of _prompt_review applies the clicked button.  The snooze branch calls
\* _snooze_s before it assigns: when that raises, the due time stays.
_prompt_review(clicked) ==
    /\ prompts > 0
    /\ prompts' = prompts - 1
    /\ last_op' = clicked
    /\ IF clicked = "start"
       THEN /\ _start_review
            /\ _last_activity_ts' = now
            /\ _next_due_ts' = now + _interval_s(cfg)
            /\ due_writer' = "interval"
            /\ raised' = FALSE
            /\ UNCHANGED _disable_until_date
       ELSE IF clicked = "snooze"
       THEN /\ IF _snooze_s_raises(cfg)
               THEN /\ raised' = TRUE
                    /\ UNCHANGED <<_next_due_ts, due_writer>>
               ELSE /\ _next_due_ts' = now + _snooze_s(cfg)
                    /\ due_writer' = "snooze"
                    /\ raised' = FALSE
            /\ UNCHANGED <<_last_activity_ts, _disable_until_date, review_pending>>
       ELSE IF clicked = "disable"
       THEN /\ _disable_until_date' = <<_today_str(now)>>
            /\ raised' = FALSE
            /\ UNCHANGED <<_last_activity_ts, _next_due_ts, due_writer,
                           review_pending>>
       ELSE /\ _next_due_ts' = now + 120
            /\ due_writer' = "cancel"
            /\ raised' = FALSE
            /\ UNCHANGED <<_last_activity_ts, _disable_until_date, review_pending>>
    /\ UNCHANGED <<now, clock0, clock_step, since_fired, defaults, cur_deck, deck_tooltip, store, cfg, mw_state, _forced_review_nudger, instances>>

\* The decks of the host's collection
Decks == {1, 2}

\* mw.col.decks.select(did): the deck becomes current or the call raises, and
\* it raises for a deck the collection does not hold
select(did) == IF did \in Decks THEN {"selected", "raises"} ELSE {"raises"}

\* mw.col.decks.get(did): the deck of that id or nothing, or the call raises
decks_get(did) == IF did \in Decks THEN {"deck", "raises"} ELSE {"none", "raises"}

\* the first part of go(): the configured deck is selected; when that fails
\* the deck is looked up and its id selected, and when that fails too a
\* tooltip is shown; every exception is caught
select_target ==
    IF cfg.target_deck_id = None
    THEN /\ deck_tooltip' = FALSE
         /\ UNCHANGED cur_deck
    ELSE LET target_id == cfg.target_deck_id[1] IN
         \E first \in select(target_id), d \in decks_get(target_id),
            second \in select(target_id) :
             IF first = "selected" \/ (d = "deck" /\ second = "selected")
             THEN /\ cur_deck' = target_id
                  /\ deck_tooltip' = FALSE
             ELSE /\ deck_tooltip' = TRUE
                  /\ UNCHANGED cur_deck

\* Variant of go with one slip: a deck the collection does not hold ends
\* go() in an exception, before the overview is opened
go_propagates ==
    /\ review_pending = "go"
    /\ last_op' = "go"
    /\ IF cfg.target_deck_id # None /\ cfg.target_deck_id[1] \notin Decks
       THEN /\ raised' = TRUE
            /\ review_pending' = "none"
            /\ deck_tooltip' = FALSE
            /\ UNCHANGED <<now, clock0, clock_step, since_fired, defaults, cur_deck, store, cfg, sched, mw_state,
                           prompts, _forced_review_nudger, instances, due_writer>>
       ELSE /\ select_target
            /\ review_pending' = "study"
            /\ _on_state_change("overview")

\* go(), run on the main loop: the target deck is selected, mw.onOverview()
\* moves the host to the overview and _try_start is queued
go ==
    /\ review_pending = "go"
    /\ select_target
    /\ review_pending' = "study"
    /\ last_op' = "go"
    /\ _on_state_change("overview")

\* _try_start(): mw.overview.onStudy() moves the host to the reviewer
_try_start ==
    /\ review_pending = "study"
    /\ review_pending' = "none"
    /\ last_op' = "try_start"
    /\ _on_state_change("review")
    /\ UNCHANGED <<cur_deck, deck_tooltip>>

-----------------------------------------------------------------------------
(* Menu *)

set_cfg(c) == store' = c

\* Variant of _toggle_enabled: the flipped flag is not written to the store
_toggle_enabled_unsaved ==
    /\ _forced_review_nudger
    /\ prompts = 0
    /\ mw_state # "profileManager"
    /\ cfg' = [cfg EXCEPT !.enabled = ~cfg.enabled]
    /\ last_op' = "toggle_enabled"
    /\ raised' = FALSE
    /\ UNCHANGED <<now, clock0, clock_step, since_fired, defaults, cur_deck, deck_tooltip, store, sched, mw_state, prompts, review_pending,
                   _forced_review_nudger, instances,
                   due_writer>>

\* Variant of _toggle_enabled with one slip: the schedule is started afresh
_toggle_enabled_reschedules ==
    /\ _forced_review_nudger
    /\ prompts = 0
    /\ mw_state # "profileManager"
    /\ cfg' = [cfg EXCEPT !.enabled = ~cfg.enabled]
    /\ set_cfg(cfg')
    /\ _last_activity_ts' = now
    /\ _next_due_ts' = now + _interval_s(cfg)
    /\ due_writer' = "interval"
    /\ last_op' = "toggle_enabled"
    /\ raised' = FALSE
    /\ UNCHANGED <<now, clock0, clock_step, since_fired, defaults, cur_deck, deck_tooltip,
                   _disable_until_date, mw_state, prompts, review_pending,
                   _forced_review_nudger, instances>>

_toggle_enabled ==
    /\ _forced_review_nudger
    /\ prompts = 0
    /\ mw_state # "profileManager"
    /\ cfg' = [cfg EXCEPT !.enabled = ~cfg.enabled]
    /\ set_cfg(cfg')
    /\ last_op' = "toggle_enabled"
    /\ raised' = FALSE
    /\ UNCHANGED <<now, clock0, clock_step, since_fired, defaults, cur_deck, deck_tooltip, sched, mw_state, prompts, review_pending,
                   _forced_review_nudger, instances,
                   due_writer>>

\* when _snooze_s raises, the assignment is not made
_quick_snooze ==
    /\ _forced_review_nudger
    /\ prompts = 0
    /\ mw_state # "profileManager"
    /\ IF _snooze_s_raises(cfg)
       THEN /\ raised' = TRUE
            /\ UNCHANGED <<_next_due_ts, due_writer>>
       ELSE /\ _next_due_ts' = now + _snooze_s(cfg)
            /\ due_writer' = "snooze"
            /\ raised' = FALSE
    /\ last_op' = "quick_snooze"
    /\ UNCHANGED <<now, clock0, clock_step, since_fired, defaults, cur_deck, deck_tooltip, store, cfg, _last_activity_ts,
                   _disable_until_date, mw_state, prompts, review_pending,
                   _forced_review_nudger, instances>>

\* Variant of _reset_today: the disabled date is kept
_reset_today_keeps_disable ==
    /\ _forced_review_nudger
    /\ prompts = 0
    /\ mw_state # "profileManager"
    /\ last_op' = IF _disable_until_date = <<_today_str(now)>>
                  THEN "reset_today_disabled" ELSE "reset_today"
    /\ _last_activity_ts' = now
    /\ _next_due_ts' = now + _interval_s(cfg)
    /\ due_writer' = "interval"
    /\ raised' = FALSE
    /\ UNCHANGED <<now, clock0, clock_step, since_fired, defaults, cur_deck, deck_tooltip, store, cfg, _disable_until_date, mw_state,
                   prompts, review_pending, _forced_review_nudger, instances>>

_reset_today ==
    /\ _forced_review_nudger
    /\ prompts = 0
    /\ mw_state # "profileManager"
    /\ _disable_until_date' = None
    /\ last_op' = IF _disable_until_date = <<_today_str(now)>>
                  THEN "reset_today_disabled" ELSE "reset_today"
    /\ _last_activity_ts' = now
    /\ _next_due_ts' = now + _interval_s(cfg)
    /\ due_writer' = "interval"
    /\ raised' = FALSE
    /\ UNCHANGED <<now, clock0, clock_step, since_fired, defaults, cur_deck, deck_tooltip, store, cfg, mw_state, prompts, review_pending,
                   _forced_review_nudger, instances>>

-----------------------------------------------------------------------------
(* Settings dialog *)

\* QSpinBox.setValue keeps the value inside the box's range
SpinValue(lo, hi, v) == IF v < lo THEN lo ELSE IF v > hi THEN hi ELSE v

InHours(h) == 0 <= h /\ h <= 23

\* what the dialog shows when it opens
interval_spin(c) == SpinValue(1, 1440, int(c.interval_minutes))
snooze_spin(c)   == SpinValue(1, 240, int(c.snooze_minutes))

\* qs, qe = int(q.get("start", 25)), int(q.get("end", 26)) inside the try:
\* a missing key has its default, and when q is not a mapping or an entry
\* cannot be converted the pair is 25, 26
dialog_start(c) == IF "start" \in DOMAIN c.quiet_hours THEN c.quiet_hours.start ELSE 25
dialog_end(c)   == IF "end" \in DOMAIN c.quiet_hours THEN c.quiet_hours.end ELSE 26
dialog_raises(c) == int_raises(dialog_start(c)) \/ int_raises(dialog_end(c))
dialog_qs(c) == IF dialog_raises(c) THEN 25 ELSE int_entry(dialog_start(c))
dialog_qe(c) == IF dialog_raises(c) THEN 26 ELSE int_entry(dialog_end(c))

quiet_enable(c)  == /\ InHours(dialog_qs(c))
                    /\ InHours(dialog_qe(c))
                    /\ dialog_qs(c) # dialog_qe(c)
qstart_spin(c)   == IF InHours(dialog_qs(c)) THEN dialog_qs(c) ELSE 22
qend_spin(c)     == IF InHours(dialog_qe(c)) THEN dialog_qe(c) ELSE 7

\* values the user types into the interval box and into the snooze box
IntervalEdits == {2}
SnoozeEdits == {1}

\* Variant of on_save: the due time is computed before the new configuration
\* is taken over
on_save_old_interval(iv, sv, checked, qs, qe, sel) ==
    /\ cfg' = [cfg EXCEPT !.interval_minutes = Minutes(iv),
                          !.snooze_minutes = Minutes(sv),
                          !.quiet_hours = IF checked
                                          THEN [start |-> qs, end |-> qe]
                                          ELSE [start |-> 25, end |-> 26],
                          !.target_deck_id = sel]
    /\ set_cfg(cfg')
    /\ _last_activity_ts' = now
    /\ _next_due_ts' = now + _interval_s(cfg)
    /\ due_writer' = "interval"
    /\ last_op' = "save"
    /\ raised' = FALSE
    /\ UNCHANGED <<now, clock0, clock_step, since_fired, defaults, cur_deck, deck_tooltip, _disable_until_date, mw_state, prompts,
                   review_pending, _forced_review_nudger, instances>>

\* on_save with the dialog's fields at iv, sv, checked, qs, qe and sel
on_save(iv, sv, checked, qs, qe, sel) ==
    /\ cfg' = [cfg EXCEPT !.interval_minutes = Minutes(iv),
                          !.snooze_minutes = Minutes(sv),
                          !.quiet_hours = IF checked
                                          THEN [start |-> qs, end |-> qe]
                                          ELSE [start |-> 25, end |-> 26],
                          !.target_deck_id = sel]
    /\ set_cfg(cfg')
    /\ _last_activity_ts' = now
    /\ _next_due_ts' = now + _interval_s(cfg')
    /\ due_writer' = "interval"
    /\ last_op' = "save"
    /\ raised' = FALSE
    /\ UNCHANGED <<now, clock0, clock_step, since_fired, defaults, cur_deck, deck_tooltip, _disable_until_date, mw_state, prompts,
                   review_pending, _forced_review_nudger, instances>>

\* the user opens the dialog, leaves or edits its fields, and saves; the
\* deck box stays at its preselected entry.  The spin boxes are filled with
\* int() of the configured minutes outside any try: when that raises, the
\* dialog is never shown.
_open_settings ==
    /\ _forced_review_nudger
    /\ prompts = 0
    /\ mw_state # "profileManager"
    /\ IF int_raises(cfg.interval_minutes) \/ int_raises(cfg.snooze_minutes)
       THEN /\ raised' = TRUE
            /\ last_op' = "open_settings"
            /\ UNCHANGED <<now, clock0, clock_step, since_fired, defaults, cur_deck, deck_tooltip, store, cfg, sched, mw_state, prompts,
                           review_pending, _forced_review_nudger, instances,
                   due_writer>>
       ELSE \E iv \in {interval_spin(cfg)} \cup IntervalEdits,
               sv \in {snooze_spin(cfg)} \cup SnoozeEdits,
               checked \in BOOLEAN :
                 on_save(iv, sv, checked, qstart_spin(cfg), qend_spin(cfg),
                         cfg.target_deck_id)

-----------------------------------------------------------------------------

Next ==
    \/ ProfileClose
    \/ ProfileOpen
    \/ _on_answer_card
    \/ \E s \in NavStates : StateChange(s)
    \/ Tick
    \/ \E clicked \in Choices : _prompt_review(clicked)
    \/ go
    \/ _try_start
    \/ _toggle_enabled
    \/ _quick_snooze
    \/ _reset_today
    \/ _open_settings

Spec == Init /\ [][Next]_vars

-----------------------------------------------------------------------------
(* The quiet-hours evaluation over every window and hour: a nudger built on *)
(* a stored quiet_hours of any two integers, at any hour of the day, with   *)
(* the timer running.                                                       *)

InitQuiet ==
    /\ now = 0
    /\ clock0 \in {h * 3600 : h \in 0..23}
    /\ store \in {[quiet_hours |-> [start |-> s, end |-> e]] :
                    s \in (-1)..MaxQuietHour, e \in (-1)..MaxQuietHour}
    /\ defaults = DEFAULT_CFG
    /\ cur_deck = 1
    /\ clock_step = 15
    /\ since_fired = 60
    /\ deck_tooltip = FALSE
    /\ __init__

SpecQuiet == InitQuiet /\ [][Tick]_vars

-----------------------------------------------------------------------------
(* The coercion of the configured minutes over every number: a nudger built *)
(* on a stored interval_minutes and snooze_minutes of any two numbers,      *)
(* negative and fractional ones included, with the handlers that call       *)
(* _interval_s and _snooze_s.                                               *)

InitMinutes ==
    /\ now = 0
    /\ clock0 \in StartClocks
    /\ store \in {[interval_minutes |-> i, snooze_minutes |-> s] :
                    i \in (-MaxSixtieths)..MaxSixtieths,
                    s \in (-MaxSixtieths)..MaxSixtieths}
    /\ defaults = DEFAULT_CFG
    /\ cur_deck = 1
    /\ clock_step = 15
    /\ since_fired = 60
    /\ deck_tooltip = FALSE
    /\ __init__

SpecMinutes == InitMinutes /\ [][_reset_today \/ _quick_snooze]_vars

-----------------------------------------------------------------------------
(* A stored document whose interval_minutes or snooze_minutes may be null   *)
(* or a string that is not a number: the nudger is built on it and every    *)
(* handler runs.                                                            *)

InitInvalid ==
    /\ now = 0
    /\ clock0 \in StartClocks
    /\ store \in {[interval_minutes |-> i, snooze_minutes |-> s] :
                    i \in {Minutes(1), JsonNull, JsonText},
                    s \in {Minutes(1), JsonNull, JsonText}}
    /\ defaults = DEFAULT_CFG
    /\ cur_deck = 1
    /\ clock_step = 15
    /\ since_fired = 60
    /\ deck_tooltip = FALSE
    /\ __init__

SpecInvalid == InitInvalid /\ [][Next]_vars

\* a nudger that was built has a numeric interval_minutes: __init__ called
\* _interval_s on the loaded value, and on_save stores the spin box's integer
IntervalIsNumber == _forced_review_nudger => ~_interval_s_raises(cfg)

-----------------------------------------------------------------------------
(* The quiet-hours evaluation over documents that are not a pair of         *)
(* integers: a nudger built on such a stored quiet_hours, at any hour of    *)
(* the day, with the timer running.                                         *)

\* entries of a stored quiet_hours: an integer, null, a string that is not
\* a numeral, the string of a numeral
QuietEntries == {22, 7, JsonNull, JsonText, JsonDigits(22), JsonDigits(7)}

\* stored quiet_hours values: null (as every value that is not a mapping,
\* subscripting it raises TypeError), a mapping without "end", a mapping
\* without "start", and the mappings of two entries
QuietDocs ==
    {None, [start |-> 22], [end |-> 7]}
      \cup {[start |-> s, end |-> e] : s \in QuietEntries, e \in QuietEntries}

InitMalformed ==
    /\ now = 0
    /\ clock0 \in {h * 3600 : h \in 0..23}
    /\ store \in {[quiet_hours |-> q] : q \in QuietDocs}
    /\ defaults = DEFAULT_CFG
    /\ cur_deck = 1
    /\ clock_step = 15
    /\ since_fired = 60
    /\ deck_tooltip = FALSE
    /\ __init__

SpecMalformed == InitMalformed /\ [][Tick]_vars

-----------------------------------------------------------------------------
(* The start of a review with a target deck configured: a nudger built on   *)
(* test_config.py's fast template with no target deck, a deck of the        *)
(* collection or a deck the collection does not hold, with the timer, the   *)
(* prompt and the queued steps of _start_review running.                    *)

TargetDecks == {None, <<2>>, <<3>>}

InitStart ==
    /\ now = 0
    /\ clock0 \in StartClocks
    /\ store \in {[k \in DOMAIN CONFIGS.fast \cup {"target_deck_id"} |->
                      IF k = "target_deck_id" THEN t ELSE CONFIGS.fast[k]] :
                    t \in TargetDecks}
    /\ defaults = DEFAULT_CFG
    /\ cur_deck = 1
    /\ clock_step = 15
    /\ since_fired = 60
    /\ deck_tooltip = FALSE
    /\ __init__

SpecStart ==
    InitStart /\ [][Tick \/ (\E clicked \in Choices : _prompt_review(clicked))
                      \/ go \/ _try_start]_vars

-----------------------------------------------------------------------------
(* The clock in steps of 5 s, three to a period of the timer: a handler     *)
(* can run between two timeouts, so that _next_due_ts falls between them.   *)

InitFine ==
    /\ now = 0
    /\ clock0 \in StartClocks
    /\ store \in {CONFIGS.fast, CONFIGS.disabled}
    /\ defaults = DEFAULT_CFG
    /\ cur_deck = 1
    /\ clock_step = 5
    /\ since_fired = 60
    /\ deck_tooltip = FALSE
    /\ __init__

SpecFine ==
    InitFine /\ [][Tick \/ (\E clicked \in Choices : _prompt_review(clicked))
                     \/ go \/ _try_start \/ _on_answer_card
                     \/ _toggle_enabled \/ _quick_snooze \/ _reset_today]_vars

-----------------------------------------------------------------------------
(* The settings dialog over the loaded configurations: a nudger built on    *)
(* stored minutes below, inside and above the ranges of the dialog's boxes, *)
(* and on stored quiet hours that are windows, out of range, equal or not a *)
(* pair of integers; the dialog is opened and saved, and the timer runs.    *)

\* stored interval_minutes and snooze_minutes
StoredIntervals == {6, 90, Minutes(1), Minutes(30), Minutes(1440), Minutes(1441)}
StoredSnoozes == {6, Minutes(5), Minutes(240), Minutes(241)}

\* stored quiet_hours
StoredQuiet ==
    {None, [start |-> 22], [end |-> 7],
     [start |-> 22, end |-> 7], [start |-> 0, end |-> 23], [start |-> 9, end |-> 9],
     [start |-> -1, end |-> 7], [start |-> 22, end |-> 24], [start |-> 25, end |-> 26],
     [start |-> JsonDigits(22), end |-> 7], [start |-> JsonNull, end |-> 7],
     [start |-> 22, end |-> JsonText]}

InitSave ==
    /\ now = 0
    /\ clock0 \in StartClocks
    /\ store \in {[interval_minutes |-> i, snooze_minutes |-> s, quiet_hours |-> q] :
                    i \in StoredIntervals, s \in StoredSnoozes, q \in StoredQuiet}
    /\ defaults = DEFAULT_CFG
    /\ cur_deck = 1
    /\ clock_step = 15
    /\ since_fired = 60
    /\ deck_tooltip = FALSE
    /\ __init__

SpecSave == InitSave /\ [][Tick \/ _open_settings]_vars

-----------------------------------------------------------------------------
(* The merge of the stored document over the defaults: a nudger built on a  *)
(* stored document holding any subset of the five keys, toggled, and kept   *)
(* over the closing and opening of profiles.                                *)

\* the documents holding the keys of keys, each at one of the values of its
\* key in the full documents docs
Restrictions(docs, keys) == {[k \in keys |-> d[k]] : d \in docs}

\* full stored documents, every value other than the default of its key
FullDocs ==
    [interval_minutes : {Minutes(30), 15},
     snooze_minutes   : {6},
     quiet_hours      : {[start |-> 22, end |-> 7]},
     enabled          : {FALSE},
     target_deck_id   : {<<1>>}]

InitMerge ==
    /\ now = 0
    /\ clock0 \in StartClocks
    /\ store \in UNION {Restrictions(FullDocs, keys) :
                          keys \in SUBSET DOMAIN DEFAULT_CFG}
    /\ defaults = DEFAULT_CFG
    /\ cur_deck = 1
    /\ clock_step = 15
    /\ since_fired = 60
    /\ deck_tooltip = FALSE
    /\ __init__

SpecMerge ==
    InitMerge /\ [][_toggle_enabled \/ ProfileClose \/ ProfileOpen]_vars

-----------------------------------------------------------------------------
(* Vocabulary of the properties *)

\* the step is a timer tick: only the tick moves the clock
TickStep == now' # now

\* the step opens a prompt
Fires == prompts' = prompts + 1

\* the quiet-hours rule of the specification, for window start..end at hour h
QuietRule(start, end, h) ==
    IF start < 0 \/ start > 23 \/ end < 0 \/ end > 23 THEN FALSE
    ELSE IF start = end THEN FALSE
    ELSE IF start < end THEN start <= h /\ h < end
    ELSE h >= start \/ h < end

\* quiet hours are active at time t under the current configuration
QuietAt(t) == QuietRule(cfg.quiet_hours.start, cfg.quiet_hours.end, Hour(t))

\* the four guards of the tick all pass at time t
GuardsPass(t) ==
    /\ cfg.enabled
    /\ _disable_until_date # <<_today_str(t)>>
    /\ ~QuietAt(t)
    /\ mw_state # "review"

-----------------------------------------------------------------------------
(* Properties *)

\* C1: on a tick where the scheduler is enabled, not disabled for today, not
\* in quiet hours and the host not reviewing, the prompt is fired if and only
\* if the clock has reached _next_due_ts.
C1_TickFiresIffDue ==
    [][(TickStep /\ GuardsPass(now')) => (Fires <=> now' >= _next_due_ts)]_vars

\* C1 witness: a tick fired exactly at the due time.
C1_Witness ==
    /\ last_op = "tick_fired"
    /\ now = _next_due_ts
    /\ GuardsPass(now)

\* C2 as claimed: for the configured interval i (interval_minutes read as
\* minutes, fractions included), the first tick after an activity at time T
\* stays silent when it comes before T + i and fires, the guards passing,
\* when it comes at or after T + i.
C2_AsClaimed ==
    [][(/\ TickStep
        /\ last_op \in {"profile_open", "answer_card", "state_change", "try_start"}
        /\ _last_activity_ts = now
        /\ cfg.interval_minutes > 0)
       => /\ (now' < _last_activity_ts + cfg.interval_minutes => ~Fires)
          /\ (now' >= _last_activity_ts + cfg.interval_minutes /\ GuardsPass(now')
                => Fires)]_vars

\* C3: while enabled is false no tick fires the prompt, however late; a
\* nudger built on the "disabled" test configuration, the store untouched,
\* never has a prompt open.
C3_DisabledNeverFires ==
    [][/\ (TickStep /\ ~cfg.enabled => ~Fires)
       /\ (store' = CONFIGS.disabled => prompts' = 0)]_vars

\* C3 witness: a tick passed silently, disabled and more than a minute
\* overdue, under the "disabled" test configuration.
C3_Witness ==
    /\ last_op = "tick_silent"
    /\ ~cfg.enabled
    /\ store = CONFIGS.disabled
    /\ now > _next_due_ts + 60

\* C4: "Disable for Today" answered on date D stores D; the stored date
\* changes only by that answer and by reset-today; no tick on the stored
\* date fires, whatever _next_due_ts; on the following date the tick is the
\* normal one again: it fires iff the other guards pass and the clock has
\* reached _next_due_ts.
C4_DisableToday ==
    [][/\ (last_op' = "disable" => _disable_until_date' = <<_today_str(now)>>)
       /\ (_disable_until_date' # _disable_until_date
             => last_op' \in {"disable", "reset_today", "reset_today_disabled"})
       /\ (TickStep /\ _disable_until_date = <<_today_str(now')>> => ~Fires)
       /\ (TickStep /\ _disable_until_date = <<_today_str(now') - 1>>
             => (Fires <=> (/\ cfg.enabled
                            /\ ~QuietAt(now')
                            /\ mw_state # "review"
                            /\ now' >= _next_due_ts)))]_vars

\* C4 witness: a tick fired on the day after the disabled one.
C4_Witness ==
    /\ last_op = "tick_fired"
    /\ _disable_until_date = <<_today_str(now) - 1>>

\* C5: no tick inside the active quiet-hours window fires the prompt,
\* whatever _next_due_ts.
C5_QuietNeverFires ==
    [][TickStep /\ QuietAt(now') => ~Fires]_vars

\* C5 witness: a tick passed silently in quiet hours although every other
\* guard passed and the prompt was due.
C5_Witness ==
    /\ last_op = "tick_silent"
    /\ QuietAt(now)
    /\ cfg.enabled
    /\ _disable_until_date # <<_today_str(now)>>
    /\ mw_state # "review"
    /\ now >= _next_due_ts

\* C6: no tick while the host is in the review state fires the prompt,
\* whatever _next_due_ts.
C6_ReviewNeverFires ==
    [][TickStep /\ mw_state = "review" => ~Fires]_vars

\* C6 witness: a tick passed silently in the reviewer although every other
\* guard passed and the prompt was due.
C6_Witness ==
    /\ last_op = "tick_silent"
    /\ mw_state = "review"
    /\ cfg.enabled
    /\ _disable_until_date # <<_today_str(now)>>
    /\ ~QuietAt(now)
    /\ now >= _next_due_ts

C8_ActivityResets ==
    [][/\ ((\/ last_op' \in {"profile_open", "answer_card"}
            \/ (last_op' \in {"state_change", "try_start"} /\ mw_state' = "review"))
           => /\ _last_activity_ts' = now
              /\ _next_due_ts' = now + _interval_s(cfg))
       /\ (last_op' \in {"state_change", "go"} /\ mw_state' # "review"
           => UNCHANGED sched)]_vars

\* C8 witness: a card was answered after the clock had moved, replacing an
\* older schedule.
C8_Witness ==
    /\ last_op = "answer_card"
    /\ now > 0
    /\ _last_activity_ts = now
    /\ _next_due_ts = now + _interval_s(cfg)

\* C9: "start" answered at time T requests the review session and
\* reschedules as an activity does: _last_activity_ts = T and
\* _next_due_ts = T + interval; no tick before _next_due_ts fires.
C9_StartReschedules ==
    [][/\ (last_op' = "start"
           => /\ review_pending' = "go"
              /\ _last_activity_ts' = now
              /\ _next_due_ts' = now + _interval_s(cfg))
       /\ (TickStep /\ now' < _next_due_ts => ~Fires)]_vars

\* C9 witness: "start" was just answered, a full interval is ahead and the
\* review session is requested.
C9_Witness ==
    /\ last_op = "start"
    /\ review_pending = "go"
    /\ _last_activity_ts = now
    /\ _next_due_ts = now + _interval_s(cfg)

\* C10: a snooze at time T, from the prompt or from the menu, sets
\* _next_due_ts to T + snooze, whatever it was; with snooze_minutes = 5 that
\* is T + 300; no tick before _next_due_ts fires.
C10_SnoozeSetsDue ==
    [][/\ (last_op' \in {"snooze", "quick_snooze"}
           => /\ _next_due_ts' = now + _snooze_s(cfg)
              /\ (cfg.snooze_minutes = Minutes(5) => _next_due_ts' = now + 300)
              /\ UNCHANGED <<_last_activity_ts, _disable_until_date>>)
       /\ (TickStep /\ now' < _next_due_ts => ~Fires)]_vars

\* C10 witness: the prompt was snoozed with snooze_minutes = 5: the due
\* time, which had passed, is now 300 s ahead.
C10_Witness ==
    /\ last_op = "snooze"
    /\ cfg.snooze_minutes = Minutes(5)
    /\ _next_due_ts = now + 300

\* C11: cancelling the prompt, or closing it without a choice, at time T sets
\* _next_due_ts to T + 120 whatever the interval and the snooze are, and
\* leaves the activity time and the disabled date alone; no tick before that
\* time fires.
C11_CancelSetsDue ==
    [][/\ (last_op' \in {"cancel", "dismiss"}
            => /\ _next_due_ts' = now + 120
               /\ UNCHANGED <<_last_activity_ts, _disable_until_date, cfg>>)
       /\ (TickStep /\ now' < _next_due_ts => ~Fires)]_vars

\* C11 witness: a prompt was cancelled or closed under a configuration whose
\* interval and snooze are both other than two minutes, and the due time is
\* 120 s ahead
C11_Witness ==
    /\ last_op \in {"cancel", "dismiss"}
    /\ _interval_s(cfg) # 120
    /\ _snooze_s(cfg) # 120
    /\ _next_due_ts = now + 120

\* C12: "reset today" at time T clears the disabled date and counts as an
\* activity (_last_activity_ts = T, _next_due_ts = T + interval); with the
\* disabled date cleared, a tick whose other guards pass fires exactly when
\* the clock has reached _next_due_ts, on the date that had been disabled too.
C12_ResetToday ==
    [][/\ (last_op' \in {"reset_today", "reset_today_disabled"}
            => /\ _disable_until_date' = None
               /\ _last_activity_ts' = now
               /\ _next_due_ts' = now + _interval_s(cfg)
               /\ UNCHANGED <<cfg, store>>)
       /\ (/\ TickStep
           /\ _disable_until_date = None
           /\ cfg.enabled /\ ~QuietAt(now') /\ mw_state # "review"
           => (Fires <=> now' >= _next_due_ts))]_vars

\* C12 witness: "reset today" was chosen on a date that was disabled, at a
\* time T > 0: the disabled date is cleared and the next prompt is due one
\* interval after T
C12_Witness ==
    /\ last_op = "reset_today_disabled"
    /\ now > 0
    /\ _disable_until_date = None
    /\ _last_activity_ts = now
    /\ _next_due_ts = now + _interval_s(cfg)

\* C13: "toggle enabled" flips cfg.enabled, leaves every other key and the
\* schedule alone, and writes the configuration with the flipped flag to the
\* store, so that the stored flag equals the one in memory after every
\* toggle; a toggle that follows a toggle flips the flag back.
C13_ToggleFlipsAndStores ==
    [][last_op' = "toggle_enabled"
        => /\ cfg'.enabled = ~cfg.enabled
           /\ \A k \in DOMAIN cfg \ {"enabled"} : cfg'[k] = cfg[k]
           /\ DOMAIN cfg' = DOMAIN cfg
           /\ store' = cfg'
           /\ store'.enabled = cfg'.enabled
           /\ UNCHANGED sched]_vars

\* C13 witness: the nudger was toggled off and the store holds the flag
C13_Witness ==
    /\ last_op = "toggle_enabled"
    /\ ~cfg.enabled
    /\ "enabled" \in DOMAIN store
    /\ ~store.enabled

\* C14 as claimed: at most one prompt is outstanding; while a prompt is
\* displayed, no tick opens a second one.
C14_AsClaimed ==
    [][TickStep /\ prompts > 0 => ~Fires]_vars

\* C16: a tick that does not fire, whichever guard stopped it, leaves
\* _last_activity_ts, _next_due_ts, _disable_until_date, the configuration
\* and the store as they were.
C16_SilentTickChangesNothing ==
    [][TickStep /\ ~Fires
        => UNCHANGED <<_last_activity_ts, _next_due_ts, _disable_until_date,
                       cfg, store>>]_vars

\* C16 witness: a tick found the prompt due and the host reviewing, and
\* returned without firing
C16_Witness ==
    /\ last_op = "tick_silent"
    /\ now >= _next_due_ts
    /\ mw_state = "review"
    /\ cfg.enabled

\* the step is one of the activity hooks: the profile opened, a card was
\* answered, or the host entered the reviewer
ActivityStep ==
    \/ last_op' \in {"profile_open", "answer_card", "try_start"}
    \/ last_op' = "state_change" /\ mw_state' = "review"

\* C20: activity events are idempotent.  An event at the instant of the
\* previous one leaves _last_activity_ts and _next_due_ts as the previous one
\* left them; an event dt after the previous one moves _next_due_ts by
\* exactly dt.
C20_ActivityIdempotent ==
    [][ActivityStep
        => /\ (_last_activity_ts = now /\ _next_due_ts = now + _interval_s(cfg)
                => UNCHANGED <<_last_activity_ts, _next_due_ts>>)
           /\ (_next_due_ts = _last_activity_ts + _interval_s(cfg)
                => _next_due_ts' - _next_due_ts = now - _last_activity_ts)
           /\ UNCHANGED <<cfg, _disable_until_date>>]_vars

\* C20 witness: a card was answered at a time T > 0.  The reviewer is only
\* entered through an activity event, so this is at least the second event,
\* and the schedule is the one a single event at T leaves.
C20_Witness ==
    /\ last_op = "answer_card"
    /\ now > 0
    /\ _last_activity_ts = now
    /\ _next_due_ts = now + _interval_s(cfg)

\* C15: in every reachable state _next_due_ts is _last_activity_ts + interval
\* under the current configuration, unless the assignment that wrote it last
\* was a snooze, and then it is the time T of that snooze + the snooze
\* length, or a cancelled or closed prompt, and then it is that time T + 120;
\* T is not before the last activity and not after now.  Construction, the
\* settings save, the toggle and "disable today" leave no other value.
C15_DueTimeOrigin ==
    /\ due_writer \in {"interval", "snooze", "cancel"}
    /\ due_writer = "interval"
        => _next_due_ts = _last_activity_ts + _interval_s(cfg)
    /\ due_writer = "snooze"
        => \E T \in _last_activity_ts..now : _next_due_ts = T + _snooze_s(cfg)
    /\ due_writer = "cancel"
        => \E T \in _last_activity_ts..now : _next_due_ts = T + 120
    /\ last_op \in {"init", "save"} => due_writer = "interval"

\* C15 witness: a prompt was cancelled, the prompt that came up at the new
\* due time was answered with "disable today", and the due time is still the
\* cancel's, not the last activity + interval
C15_Witness ==
    /\ last_op = "disable"
    /\ due_writer = "cancel"
    /\ _next_due_ts # _last_activity_ts + _interval_s(cfg)
    /\ _next_due_ts <= now

\* s seconds are the whole minutes of m configured minutes (m in sixtieths
\* of a minute, which is seconds), and at least one minute
WholeMinutesOf(s, m) ==
    /\ s % 60 = 0
    /\ s >= 60
    /\ m >= 60 => s <= m /\ m < s + 60
    /\ m < 60 => s = 60

C18_AsClaimed ==
    /\ ~raised
    /\ _forced_review_nudger
    /\ last_op \in {"snooze", "quick_snooze"} => _next_due_ts >= now + 60

\* the quiet_hours value q is a mapping with both keys
HasBothKeys(q) == {"start", "end"} \subseteq DOMAIN q

\* the entry x is a JSON integer
IsJsonInteger(x) == x < JsonNull

\* q is malformed in the sense of the claim: not a mapping, a key missing,
\* or an entry that is not an integer
Malformed(q) ==
    IF HasBothKeys(q) THEN ~IsJsonInteger(q.start) \/ ~IsJsonInteger(q.end)
    ELSE TRUE

\* q has no integer reading: not a mapping, a key missing, or an entry that
\* is null or a string that is not a numeral
Unconvertible(q) ==
    IF HasBothKeys(q) THEN q.start \in {JsonNull, JsonText} \/ q.end \in {JsonNull, JsonText}
    ELSE TRUE

\* the guards of the tick other than quiet hours pass at time t, and the
\* prompt is due
DueButForQuiet(t) ==
    /\ cfg.enabled
    /\ _disable_until_date # <<_today_str(t)>>
    /\ mw_state # "review"
    /\ t >= _next_due_ts

\* C19 as claimed: for every malformed quiet_hours (not a mapping, a key
\* missing, an entry that is not an integer) the evaluation answers "not
\* quiet" without raising, so a tick whose other guards pass fires.
C19_AsClaimed ==
    [][TickStep /\ Malformed(cfg.quiet_hours) /\ DueButForQuiet(now')
        => Fires /\ ~raised']_vars

\* C19, amended: for every quiet_hours that int() cannot read (not a
\* mapping, a key missing, an entry that is null or a string that is not a
\* numeral) the evaluation answers "not quiet" without raising, so a tick
\* whose other guards pass fires; entries that int() converts, the string
\* "22" for one, count as the converted number, and the window they give is
\* quiet.
C19_UnconvertibleIsNotQuiet ==
    [][TickStep /\ DueButForQuiet(now')
        => /\ ~raised'
           /\ IF Unconvertible(cfg.quiet_hours) THEN Fires
              ELSE Fires <=> ~QuietRule(int_entry(cfg.quiet_hours.start),
                                        int_entry(cfg.quiet_hours.end),
                                        Hour(now'))]_vars

\* C19 witness: with quiet_hours = {"start": 22, "end": null} the tick fired
\* at 23 h, inside the window 22..7 that an end of 7 would give
C19_Witness ==
    /\ last_op = "tick_fired"
    /\ cfg.quiet_hours = [start |-> 22, end |-> JsonNull]
    /\ Hour(now) = 23

\* the configuration in force is test_config.py's "fast" one
FastConfig ==
    /\ cfg.interval_minutes = CONFIGS.fast.interval_minutes
    /\ cfg.snooze_minutes = CONFIGS.fast.snooze_minutes
    /\ cfg.quiet_hours = CONFIGS.fast.quiet_hours
    /\ cfg.enabled

\* C21 as claimed: under the "fast" configuration (interval_minutes = 0.25)
\* the prompt is due 15 s after the last activity: a tick with the nudger not
\* disabled for the day and the host not reviewing fires exactly when the
\* clock has reached the last activity + 15 s.
C21_AsClaimed ==
    [][(/\ TickStep
        /\ FastConfig
        /\ due_writer = "interval"
        /\ _disable_until_date # <<_today_str(now')>>
        /\ mw_state # "review")
       => (Fires <=> now' >= _last_activity_ts + 15)]_vars

\* C22 as claimed: under the "fast" configuration (snooze_minutes = 0.1) a
\* snooze at time T, from the prompt or from the menu, sets _next_due_ts to
\* T + 6.
C22_AsClaimed ==
    [][last_op' \in {"snooze", "quick_snooze"} /\ FastConfig
        => _next_due_ts' = now + 6]_vars

\* C23 as claimed: under the quiet_hours of the "quiet" configuration (start
\* 0, end 23) every hour of the day is quiet: no tick fires, at whatever hour
\* it comes.
C23_AsClaimed ==
    [][TickStep /\ cfg.quiet_hours = CONFIGS.quiet.quiet_hours => ~Fires]_vars

\* the step is a profile_did_open event
ProfileOpenStep == last_op' \in {"profile_open", "init_after_profile"}

\* C24: after any sequence of profile-open events at most one nudger is
\* attached to the main window, with its one timer and its one set of hooks:
\* a profile-open event builds a nudger only when none exists, and with one
\* in place it keeps that one.
C24_Singleton ==
    /\ [](instances <= 1)
    /\ [](_forced_review_nudger <=> instances = 1)
    /\ [][ProfileOpenStep
           => /\ instances' # instances => ~_forced_review_nudger
              /\ _forced_review_nudger
                   => UNCHANGED <<instances, _forced_review_nudger, cfg,
                                  _disable_until_date>>]_vars

\* C24 witness: a profile was opened after the nudger had been disabled for
\* the day: there is one nudger, and it still holds the disabled date
C24_Witness ==
    /\ last_op = "profile_open"
    /\ instances = 1
    /\ _disable_until_date = <<_today_str(now)>>

\* C25 as claimed: closing the profile destroys the nudger, so that its
\* timer fires no prompt while no profile is loaded, and the next profile
\* session runs on a nudger newly built: freshly loaded configuration, no
\* disabled date.
C25_AsClaimed ==
    [][/\ (last_op' = "profile_close"
            => ~_forced_review_nudger' /\ instances' = 0)
       /\ (TickStep /\ mw_state = "profileManager" => ~Fires)
       /\ (ProfileOpenStep
            => /\ instances' = 1
               /\ cfg' = get_cfg(store)
               /\ _disable_until_date' = None)]_vars

\* C26: the configuration a nudger is built on is the stored document laid
\* over the defaults: every stored key has the stored value, every key not
\* stored, quiet_hours and target_deck_id among them, has its default, and
\* the defaults table is never changed.
C26_MergeOverDefaults ==
    /\ defaults = DEFAULT_CFG
    /\ last_op = "init"
        => /\ DOMAIN cfg = DOMAIN DEFAULT_CFG \cup DOMAIN store
           /\ \A k \in DOMAIN store : cfg[k] = store[k]
           /\ \A k \in DOMAIN DEFAULT_CFG \ DOMAIN store : cfg[k] = DEFAULT_CFG[k]
    /\ last_op = "toggle_enabled" => store = cfg

\* C26 witness: built on a stored document of interval_minutes and enabled
\* alone, the nudger has these two from the store and the other three keys
\* from the defaults
C26_Witness ==
    /\ last_op = "init"
    /\ store = [interval_minutes |-> Minutes(30), enabled |-> FALSE]
    /\ cfg = [interval_minutes |-> Minutes(30),
              snooze_minutes   |-> DEFAULT_CFG.snooze_minutes,
              quiet_hours      |-> DEFAULT_CFG.quiet_hours,
              enabled          |-> FALSE,
              target_deck_id   |-> None]

C27_WitnessHostFails ==
    /\ last_op = "go"
    /\ cfg.target_deck_id = <<2>>
    /\ deck_tooltip
    /\ cur_deck = 1
    /\ clock_step = 15
    /\ since_fired = 60
    /\ mw_state = "overview"

\* the step is a timeout of the timer: a period of 15 s has elapsed
TimeoutStep == now' # now /\ now' % 15 = 0

\* the outcomes of the prompt
Outcomes == {"start", "snooze", "disable", "cancel", "dismiss"}

\* C28: the nudger has no terminal state and responds within one period of
\* the timer.  While the nudger exists the clock can move on and a timeout
\* comes every 15 s, with a prompt open or not; a timeout at or after
\* _next_due_ts at which the nudger is enabled, not disabled for the day,
\* outside quiet hours and the host outside review opens the prompt; when no
\* handler ran since the timeout before, which was silent with the guards
\* passing, the prompt opens less than 15 s after _next_due_ts; and an outcome
\* closes its prompt and leaves the timer running.
C28_RespondsWithinPeriod ==
    /\ [](_forced_review_nudger /\ now + clock_step <= MaxTime /\ prompts < MaxPrompts
            => ENABLED Tick)
    /\ [][/\ (TimeoutStep /\ GuardsPass(now') /\ now' >= _next_due_ts => Fires)
          /\ (TimeoutStep /\ Fires /\ last_op = "tick_silent" /\ GuardsPass(now' - 15)
                => now' < _next_due_ts + 15)
          /\ (now' # now /\ ~TimeoutStep => ~Fires)
          /\ (now' = now /\ last_op' \in Outcomes =>
                prompts' = prompts - 1 /\ _forced_review_nudger')]_vars

\* after a snooze the nudger waited again, and the prompt fired at the first
\* timeout after _next_due_ts, which fell between two timeouts
C28_Witness ==
    /\ last_op = "tick_fired"
    /\ now % 15 = 0
    /\ due_writer = "snooze"
    /\ _next_due_ts < now
    /\ now < _next_due_ts + 15

\* C29 as claimed: any two consecutive firings of the prompt are at least
\* 60 s apart, whatever the configuration and whatever outcomes, menu actions
\* and date changes lie between them.
C29_AsClaimed ==
    [][Fires => since_fired + (now' - now) >= 60]_vars

\* C30: each operation writes only its own part of the state.  Snooze (in the
\* prompt or the menu) and cancel write _next_due_ts only; "disable for today"
\* writes _disable_until_date only; the toggle flips the enabled flag, stores
\* the configuration and leaves the schedule alone, so that a prompt overdue
\* when the nudger is switched on fires at the next timeout; the activity
\* events and the save of the settings leave _disable_until_date alone.
C30_OwnPart ==
    [][/\ (last_op' \in {"snooze", "quick_snooze", "cancel", "dismiss"} =>
             UNCHANGED <<_last_activity_ts, _disable_until_date, cfg, store, mw_state>>)
       /\ (last_op' = "disable" =>
             UNCHANGED <<_last_activity_ts, _next_due_ts, due_writer, cfg, store, mw_state>>)
       /\ (last_op' = "toggle_enabled" =>
             /\ cfg' = [cfg EXCEPT !.enabled = ~cfg.enabled]
             /\ store' = cfg'
             /\ UNCHANGED <<sched, due_writer, mw_state, prompts>>)
       /\ (TickStep /\ last_op = "toggle_enabled" /\ GuardsPass(now')
             /\ now' >= _next_due_ts => Fires)
       /\ (ActivityStep \/ last_op' = "save" => UNCHANGED _disable_until_date)]_vars

\* the nudger was switched off, a snooze ran out meanwhile, the date is
\* disabled, and the nudger has just been switched on again with the prompt
\* overdue
C30_Witness ==
    /\ last_op = "toggle_enabled"
    /\ cfg.enabled
    /\ due_writer = "snooze"
    /\ _next_due_ts <= now
    /\ _disable_until_date # None

-----------------------------------------------------------------------------
(* src/debug_version.py: the nudger with logging *)

\* debug_version.py's _is_quiet_now: the except branch carries on with the
\* window 22..7, and the hours are not checked against 0..23
debug_is_quiet_now(c, t) ==
    LET q      == c.quiet_hours
        failed == \/ ~({"start", "end"} \subseteq DOMAIN q)
                  \/ int_raises(q.start) \/ int_raises(q.end)
        start  == IF failed THEN 22 ELSE int_entry(q.start)
        end    == IF failed THEN 7 ELSE int_entry(q.end)
        now_h  == Hour(t)
    IN  IF start <= end THEN start <= now_h /\ now_h < end
        ELSE now_h >= start \/ now_h < end

\* debug_version.py's _on_tick at time t: TRUE when it calls _prompt_review
debug_on_tick(t) ==
    IF ~cfg.enabled THEN FALSE
    ELSE IF _disable_until_date = <<_today_str(t)>> THEN FALSE
    ELSE IF debug_is_quiet_now(cfg, t) THEN FALSE
    ELSE IF mw_state = "review" THEN FALSE
    ELSE t >= _next_due_ts

\* what debug_version.py's _prompt_review writes to the schedule when the
\* button clicked is closed on
debug_prompt_review(clicked) ==
    IF clicked = "start"
    THEN /\ _last_activity_ts' = now
         /\ _next_due_ts' = now + _interval_s(cfg)
         /\ UNCHANGED _disable_until_date
    ELSE IF clicked = "snooze"
    THEN /\ _next_due_ts' = IF _snooze_s_raises(cfg) THEN _next_due_ts
                            ELSE now + _snooze_s(cfg)
         /\ UNCHANGED <<_last_activity_ts, _disable_until_date>>
    ELSE IF clicked = "disable"
    THEN /\ _disable_until_date' = <<_today_str(now)>>
         /\ UNCHANGED <<_last_activity_ts, _next_due_ts>>
    ELSE /\ _next_due_ts' = now + 120
         /\ UNCHANGED <<_last_activity_ts, _disable_until_date>>

\* C31 as claimed: the debug version is the same nudger with logging added.
\* For every configuration, with quiet hours out of range, equal or
\* malformed, and every state, hour and host state, its timeout decides to
\* fire exactly when the main version's does, and the outcomes of its prompt
\* write to the schedule what the main version's write.
C31_AsClaimed ==
    [][/\ (TimeoutStep => (Fires <=> debug_on_tick(now')))
       /\ (now' = now /\ last_op' \in Outcomes => debug_prompt_review(last_op'))]_vars

\* the step saves the dialog with every field as the dialog showed it
UneditedSave ==
    /\ last_op' = "save"
    /\ now' = now
    /\ cfg'.interval_minutes = Minutes(interval_spin(cfg))
    /\ cfg'.snooze_minutes = Minutes(snooze_spin(cfg))
    /\ cfg'.quiet_hours = IF quiet_enable(cfg)
                          THEN [start |-> qstart_spin(cfg), end |-> qend_spin(cfg)]
                          ELSE [start |-> 25, end |-> 26]

\* C32 as claimed: for every loaded configuration, saving the settings dialog
\* without editing a field leaves _interval_s, _snooze_s and the quiet-hours
\* decision of every hour as they were, and sets the schedule to now plus the
\* interval.
C32_AsClaimed ==
    [][UneditedSave =>
         /\ _interval_s(cfg') = _interval_s(cfg)
         /\ _snooze_s(cfg') = _snooze_s(cfg)
         /\ \A h \in 0..23 :
              _is_quiet_now(cfg', h * 3600 - clock0) = _is_quiet_now(cfg, h * 3600 - clock0)
         /\ _last_activity_ts' = now
         /\ _next_due_ts' = now + _interval_s(cfg')]_vars

====
